---- MODULE Spec2Model ----
(***************************************************************************)
(* tut: unification of basic-block trace files against a list of valid     *)
(* basic blocks (src/main.rs).                                             *)
(*                                                                         *)
(* Text is modelled as a sequence of one-character strings, a file as the  *)
(* sequence of its bytes (a line feed ends a line), a path as the sequence *)
(* of its components, each component being text.                           *)
(*                                                                         *)
(* A usize is modelled as the sequence of its decimal digits, the most     *)
(* significant first and without leading zeros: 65536 is <<6, 5, 5, 3, 6>>.*)
(***************************************************************************)
EXTENDS Integers, Sequences, FiniteSets, TLC

(***************************************************************************)
(* usize                                                                   *)
(***************************************************************************)

\* usize::BITS of the 64-bit targets the program is built for.
UsizeBits == 64

\* The usize of a small natural number.
RECURSIVE Usize(_)
Usize(n) == IF n < 10 THEN << n >> ELSE Append(Usize(n \div 10), n % 10)

Zero == Usize(0)

\* The digits without their leading zeros.
RECURSIVE StripZeros(_)
StripZeros(u) == IF Len(u) > 1 /\ u[1] = 0 THEN StripZeros(Tail(u)) ELSE u

\* u * m + c for small m and c, digit by digit from the right.
RECURSIVE MulAdd(_, _, _)
MulAdd(u, m, c) ==
    IF u = << >> THEN (IF c = 0 THEN << >> ELSE Usize(c))
    ELSE Append(MulAdd(SubSeq(u, 1, Len(u) - 1), m, (u[Len(u)] * m + c) \div 10),
                (u[Len(u)] * m + c) % 10)

\* a < b
Less(a, b) ==
    \/ Len(a) < Len(b)
    \/ /\ Len(a) = Len(b)
       /\ \E k \in DOMAIN a : a[k] < b[k] /\ \A m \in 1..(k - 1) : a[m] = b[m]

\* The digits of a - b for b <= a, before the leading zeros are removed.
RECURSIVE MinusDigits(_, _, _)
MinusDigits(a, b, borrow) ==
    IF a = << >> THEN << >>
    ELSE LET x == a[Len(a)] - (IF b = << >> THEN 0 ELSE b[Len(b)]) - borrow
         IN  Append(MinusDigits(SubSeq(a, 1, Len(a) - 1),
                                IF b = << >> THEN << >> ELSE SubSeq(b, 1, Len(b) - 1),
                                IF x < 0 THEN 1 ELSE 0),
                    IF x < 0 THEN x + 10 ELSE x)

\* a - b for b <= a
Minus(a, b) == StripZeros(MinusDigits(a, b, 0))

\* Long division of u by a small m: the digits of the quotient and the rest.
RECURSIVE DivMod(_, _, _)
DivMod(u, m, r) ==
    IF u = << >> THEN [q |-> << >>, r |-> r]
    ELSE LET rest == DivMod(Tail(u), m, (r * 10 + Head(u)) % m)
         IN  [q |-> << (r * 10 + Head(u)) \div m >> \o rest.q, r |-> rest.r]

\* 2^n, sixteen doublings at a time while that many are left.
RECURSIVE Pow2(_)
Pow2(n) ==
    IF n = 0 THEN Usize(1)
    ELSE IF n >= 16 THEN MulAdd(Pow2(n - 16), 65536, 0)
    ELSE MulAdd(Pow2(n - 1), 2, 0)

\* usize::MAX + 1
UsizeModulus == Pow2(UsizeBits)

(***************************************************************************)
(* Text helpers                                                            *)
(***************************************************************************)

\* The line feed, the carriage return, the zero byte of a hole in a file, and
\* a byte that is not valid UTF-8, each standing for one byte.
NL == "\n"
CR == "\r"
NUL == "NUL"
InvalidByte == "0xFF"

\* The concatenation of a sequence of texts.
RECURSIVE Concat(_)
Concat(ss) == IF ss = << >> THEN << >> ELSE Head(ss) \o Concat(Tail(ss))

\* char::to_digit(36) as used by from_str_radix; 99 for a non-alphanumeric.
DigitVal(c) ==
    CASE c = "0" -> 0  [] c = "1" -> 1  [] c = "2" -> 2  [] c = "3" -> 3
      [] c = "4" -> 4  [] c = "5" -> 5  [] c = "6" -> 6  [] c = "7" -> 7
      [] c = "8" -> 8  [] c = "9" -> 9
      [] c = "a" -> 10 [] c = "b" -> 11 [] c = "c" -> 12 [] c = "d" -> 13
      [] c = "e" -> 14 [] c = "f" -> 15
      [] c = "A" -> 10 [] c = "B" -> 11 [] c = "C" -> 12 [] c = "D" -> 13
      [] c = "E" -> 14 [] c = "F" -> 15
      [] c = "g" -> 16 [] c = "z" -> 35
      [] OTHER -> 99

\* The digit loop of from_str_radix: InvalidDigit or PosOverflow end it.
RECURSIVE ParseDigits(_, _, _)
ParseDigits(s, radix, acc) ==
    IF s = << >> THEN [ok |-> TRUE, val |-> acc]
    ELSE IF DigitVal(Head(s)) >= radix THEN [ok |-> FALSE, val |-> Zero]
    ELSE IF ~Less(MulAdd(acc, radix, DigitVal(Head(s))), UsizeModulus)
         THEN [ok |-> FALSE, val |-> Zero]
    ELSE ParseDigits(Tail(s), radix, MulAdd(acc, radix, DigitVal(Head(s))))

\* usize::from_str_radix(s, radix); str::parse::<usize> is radix 10.
from_str_radix(s, radix) ==
    IF s = << >> THEN [ok |-> FALSE, val |-> Zero]
    ELSE IF Len(s) = 1 /\ Head(s) \in {"+", "-"} THEN [ok |-> FALSE, val |-> Zero]
    ELSE IF Head(s) = "+" THEN ParseDigits(Tail(s), radix, Zero)
    ELSE ParseDigits(s, radix, Zero)

\* Index of the first sep in s at or after position i, 0 if there is none.
RECURSIVE FindFrom(_, _, _)
FindFrom(s, sep, i) ==
    IF i > Len(s) THEN 0
    ELSE IF s[i] = sep THEN i
    ELSE FindFrom(s, sep, i + 1)

\* str::splitn(n, sep): at most n parts, the last one holding the rest.
RECURSIVE splitn(_, _, _)
splitn(n, s, sep) ==
    IF n = 0 THEN << >>
    ELSE IF n = 1 \/ FindFrom(s, sep, 1) = 0 THEN << s >>
    ELSE << SubSeq(s, 1, FindFrom(s, sep, 1) - 1) >>
         \o splitn(n - 1, SubSeq(s, FindFrom(s, sep, 1) + 1, Len(s)), sep)

\* BufRead::lines: the bytes up to each line feed, without it and without a
\* carriage return before it; a last line needs no line feed.
RECURSIVE lines(_)
lines(bytes) ==
    IF bytes = << >> THEN << >>
    ELSE LET n == FindFrom(bytes, NL, 1)
             raw == IF n = 0 THEN bytes ELSE SubSeq(bytes, 1, n - 1)
         IN  << IF n # 0 /\ raw # << >> /\ raw[Len(raw)] = CR
                THEN SubSeq(raw, 1, Len(raw) - 1) ELSE raw >>
             \o (IF n = 0 THEN << >> ELSE lines(SubSeq(bytes, n + 1, Len(bytes))))

\* A BufReader on a file just opened: nothing buffered, nothing read.
NewReader == [buf |-> << >>, pos |-> 0]

\* lines().next() on a BufReader of the file with the given bytes: the line is
\* taken from the buffer; a buffer without a line feed is topped up with what
\* the file holds from the position of the reader on (files are shorter than
\* the 8 KiB of the buffer).  eof is TRUE when there is nothing left.
next_line(rd, bytes) ==
    LET more == IF FindFrom(rd.buf, NL, 1) = 0
                THEN SubSeq(bytes, rd.pos + 1, Len(bytes)) ELSE << >>
        data == rd.buf \o more
        n == FindFrom(data, NL, 1)
        raw == IF n = 0 THEN data ELSE SubSeq(data, 1, n - 1)
    IN  [eof |-> data = << >>,
         line |-> IF n # 0 /\ raw # << >> /\ raw[Len(raw)] = CR
                  THEN SubSeq(raw, 1, Len(raw) - 1) ELSE raw,
         reader |-> [buf |-> IF n = 0 THEN << >> ELSE SubSeq(data, n + 1, Len(data)),
                     pos |-> rd.pos + Len(more)]]

\* The line is valid UTF-8: lines() yields Ok for it.
is_utf8(line) == \A k \in DOMAIN line : line[k] # InvalidByte

HexDigits == << "0", "1", "2", "3", "4", "5", "6", "7",
                "8", "9", "a", "b", "c", "d", "e", "f" >>

\* {:x}
RECURSIVE LowerHex(_)
LowerHex(u) ==
    LET d == DivMod(u, 16, 0)
    IN  IF StripZeros(d.q) = Zero THEN << HexDigits[d.r + 1] >>
        ELSE LowerHex(StripZeros(d.q)) \o << HexDigits[d.r + 1] >>

\* {} of an unsigned integer
Decimal(u) == [k \in DOMAIN u |-> HexDigits[u[k] + 1]]

\* The fill characters of a zero padded field ({:04x} has width 4):
\* Formatter::padding writes them one at a time.
Padding(s, width) ==
    [k \in 1..(IF Len(s) >= width THEN 0 ELSE width - Len(s)) |-> << "0" >>]

(***************************************************************************)
(* BasicBlockEntry and its Display                                         *)
(***************************************************************************)

BasicBlockEntry(id, pc, hit) ==
    [id |-> id, program_counter |-> pc, hit_counter |-> hit]

\* fmt with the program counter of the full form written in decimal.
fmt_decimal_pc(e, alternate) ==
    IF ~alternate
    THEN Padding(LowerHex(e.id), 4)
         \o << LowerHex(e.id), << " " >>, Decimal(e.program_counter),
               << " " >>, Decimal(e.hit_counter) >>
    ELSE << LowerHex(e.program_counter), << " " >>, Decimal(e.hit_counter) >>

\* fmt that never takes the alternate branch.
fmt_never_alternate(e, alternate) ==
    Padding(LowerHex(e.id), 4)
    \o << LowerHex(e.id), << " " >>, LowerHex(e.program_counter),
          << " " >>, Decimal(e.hit_counter) >>

\* Display::fmt: the pieces each branch hands to the writer, one write_str
\* each, in order.
fmt(e, alternate) ==
    IF ~alternate
    THEN Padding(LowerHex(e.id), 4)
         \o << LowerHex(e.id), << " " >>, LowerHex(e.program_counter),
               << " " >>, Decimal(e.hit_counter) >>
    ELSE << LowerHex(e.program_counter), << " " >>, Decimal(e.hit_counter) >>

\* The text fmt writes.
to_string(e, alternate) == Concat(fmt(e, alternate))

(***************************************************************************)
(* Reference list: main, the valid basic block file                        *)
(***************************************************************************)

\* filter_map(|l| usize::from_str_radix(&l, 16).ok()).collect()
RECURSIVE load_valid_bb(_)
load_valid_bb(ls) ==
    IF ls = << >> THEN << >>
    ELSE IF from_str_radix(Head(ls), 16).ok
         THEN << from_str_radix(Head(ls), 16).val >> \o load_valid_bb(Tail(ls))
    ELSE load_valid_bb(Tail(ls))

\* contains that looks at the first element only.
contains_first(valid_bb, pc) == valid_bb # << >> /\ valid_bb[1] = pc

\* valid_bb.contains(&pc)
contains(valid_bb, pc) == \E j \in DOMAIN valid_bb : valid_bb[j] = pc

(***************************************************************************)
(* parse_bb_trace_file: one turn of the loop over the lines                *)
(***************************************************************************)

\* parse_line that takes 0 for a field that does not parse.
parse_line_lenient(line) ==
    LET parts == splitn(3, line, " ")
        id == from_str_radix(parts[1], 16)
        pc == from_str_radix(parts[2], 16)
        hit == from_str_radix(parts[3], 10)
        res(st, a, b, c) == [status |-> st, id |-> a, pc |-> b, hit_count |-> c]
    IN  IF Len(parts) < 3 THEN res("PanicIndex", Zero, Zero, Zero)
        ELSE res("Ok", IF id.ok THEN id.val ELSE Zero, IF pc.ok THEN pc.val ELSE Zero,
                 IF hit.ok THEN hit.val ELSE Zero)

\* The three fields of a line.  status is "Ok", "Err" (a ParseIntError leaves
\* through `?`) or "PanicIndex" (parts[1] or parts[2] does not exist).
parse_line(line) ==
    LET parts == splitn(3, line, " ")
        id == from_str_radix(parts[1], 16)
        pc == from_str_radix(parts[2], 16)
        hit == from_str_radix(parts[3], 10)
        res(st, a, b, c) == [status |-> st, id |-> a, pc |-> b, hit_count |-> c]
    IN  IF ~id.ok THEN res("Err", Zero, Zero, Zero)
        ELSE IF Len(parts) < 2 THEN res("PanicIndex", Zero, Zero, Zero)
        ELSE IF ~pc.ok THEN res("Err", Zero, Zero, Zero)
        ELSE IF Len(parts) < 3 THEN res("PanicIndex", Zero, Zero, Zero)
        ELSE IF ~hit.ok THEN res("Err", Zero, Zero, Zero)
        ELSE res("Ok", id.val, pc.val, hit.val)

\* The id pushed as it was read, id_offset not subtracted.
sub_id_offset_ignored(id, id_offset, checks) == [ok |-> TRUE, val |-> id]

\* id - id_offset on usize: with overflow checks an underflow panics, without
\* them the difference wraps.
sub_id_offset(id, id_offset, checks) ==
    IF ~Less(id, id_offset) THEN [ok |-> TRUE, val |-> Minus(id, id_offset)]
    ELSE IF checks THEN [ok |-> FALSE, val |-> Zero]
    ELSE [ok |-> TRUE, val |-> Minus(UsizeModulus, Minus(id_offset, id))]

\* id_offset advanced by two for one dropped line.
next_id_offset_twice(id_offset) == MulAdd(id_offset, 1, 2)

\* id_offset += 1
next_id_offset(id_offset) == MulAdd(id_offset, 1, 1)

\* The locals of parse_bb_trace_file before the first line.  k counts the
\* lines the loop has taken from the reader.
LoopStart ==
    [k |-> 0, ids |-> << >>, program_counters |-> << >>, hit_counters |-> << >>,
     id_offset |-> Zero, status |-> "Run"]

\* The loop body applied to the next line; l.unwrap() comes first.
loop_body(st, line, valid_bb, checks) ==
    LET p == parse_line(line)
        d == sub_id_offset(p.id, st.id_offset, checks)
    IN  IF ~is_utf8(line) THEN [st EXCEPT !.k = @ + 1, !.status = "PanicRead"]
        ELSE IF p.status # "Ok" THEN [st EXCEPT !.k = @ + 1, !.status = p.status]
        ELSE IF contains(valid_bb, p.pc)
        THEN IF ~d.ok THEN [st EXCEPT !.k = @ + 1, !.status = "PanicOverflow"]
             ELSE [st EXCEPT !.k = @ + 1,
                             !.ids = Append(@, d.val),
                             !.program_counters = Append(@, p.pc),
                             !.hit_counters = Append(@, p.hit_count)]
        ELSE [st EXCEPT !.k = @ + 1, !.id_offset = next_id_offset(@)]

\* After the loop: truncate the ids, the two assert_eq!, then the entries.
\* asserted is FALSE when one of the assertions fails.
build_entries(st) ==
    LET ids == SubSeq(st.ids, 1, IF Len(st.ids) < Len(st.program_counters)
                                 THEN Len(st.ids) ELSE Len(st.program_counters))
    IN  [asserted |-> Len(ids) = Len(st.program_counters)
                      /\ Len(st.program_counters) = Len(st.hit_counters),
         entries |-> [j \in 1..Len(ids) |->
                        BasicBlockEntry(ids[j], st.program_counters[j],
                                        st.hit_counters[j])]]

(***************************************************************************)
(* write_trace_file                                                        *)
(***************************************************************************)

\* writeln! of one trace with {} or {:#}: the pieces of fmt, then the line
\* feed.  The file is not buffered: each piece is one write to it.
writeln(trace, strip) == Append(fmt(trace, strip), << NL >>)

\* The writes of the loop over the traces, in order.
RECURSIVE write_calls(_, _)
write_calls(traces, strip) ==
    IF traces = << >> THEN << >>
    ELSE writeln(Head(traces), strip) \o write_calls(Tail(traces), strip)

\* A write of buf at position pos of a file: the bytes there are replaced, the
\* file grows as needed, and a gap between its end and pos reads as zeros.
write_at(bytes, pos, buf) ==
    LET gap == [k \in 1..(IF pos > Len(bytes) THEN pos - Len(bytes) ELSE 0) |-> NUL]
        old == bytes \o gap
    IN  SubSeq(old, 1, pos) \o buf \o SubSeq(old, pos + Len(buf) + 1, Len(old))

(***************************************************************************)
(* Paths                                                                   *)
(***************************************************************************)

\* Index of the last "." of a file name, 0 if there is none.
RECURSIVE LastDot(_, _)
LastDot(name, i) ==
    IF i = 0 THEN 0
    ELSE IF name[i] = "." THEN i
    ELSE LastDot(name, i - 1)

\* Path::file_name: the last component.
file_name(path) == path[Len(path)]

\* Path::file_stem of a file name: the name up to its last ".", the whole name
\* when it has none or only a leading one.
file_stem(name) ==
    IF LastDot(name, Len(name)) <= 1 THEN name
    ELSE SubSeq(name, 1, LastDot(name, Len(name)) - 1)

\* PathBuf::push of a relative component.
push(path, component) == Append(path, component)

\* PathBuf::set_extension with a non-empty extension.
set_extension(path, extension) ==
    [path EXCEPT ![Len(path)] = file_stem(@) \o << "." >> \o extension]

Unified == << "u", "n", "i", "f", "i", "e", "d" >>
Stripped == << "s", "t", "r", "i", "p", "p", "e", "d" >>

\* The output path built without pushing the file name of the trace file.
unified_trace_file_path_no_push(output_path, path, strip) ==
    IF output_path = << >> THEN << >>
    ELSE set_extension(output_path, IF strip THEN Stripped ELSE Unified)

\* The output path main builds for one trace file.
unified_trace_file_path(output_path, path, strip) ==
    set_extension(push(output_path, file_name(path)),
                  IF strip THEN Stripped ELSE Unified)

\* Path::parent
parent(path) == SubSeq(path, 1, Len(path) - 1)

(***************************************************************************)
(* State of one run of the program                                         *)
(***************************************************************************)

VARIABLES
    args,              \* Cli: valid_bb_file, trace_files, output_path, strip
    overflow_checks,   \* the build: TRUE when arithmetic overflow panics
    num_threads,       \* rayon's current_num_threads(): RAYON_NUM_THREADS, or the
                       \* number of CPUs
    fs,                \* the files: path -> bytes
    dirs,              \* the directories that exist
    phase,             \* where main is: "start", "loaded", "outdir", "parallel", "exit"
    exit_code,         \* 0, 1 (main returned Err) or 101 (panic); -1 while running
    valid_bb,          \* main's valid_bb
    output_path,       \* main's output_path
    trace_file_paths,  \* main's trace_file_paths
    stage,             \* per trace file: position of its closure in par_iter().for_each
    reader,            \* per trace file: the BufReader of parse_bb_trace_file
    loop,              \* per trace file: the other locals of parse_bb_trace_file
    traces,            \* per trace file: the Vec returned by parse_bb_trace_file
    failure,           \* per trace file: why its closure panicked, "none" otherwise
    written,           \* per trace file: the path write_trace_file created, << >> if none
    unified_trace_file,\* per trace file: the open output file of write_trace_file:
                       \* its position and the writes still to come
    run,               \* number of the run of the program (the output of one run
                       \* is the input of the next)
    previous           \* the traces the previous run returned for its trace file

vars == << args, overflow_checks, num_threads, fs, dirs, phase, exit_code, valid_bb, output_path,
           trace_file_paths, stage, reader, loop, traces, failure, written,
           unified_trace_file, run, previous >>

\* -verbose only prints (lines 99-105) and is left out of args.

(***************************************************************************)
(* Inputs                                                                  *)
(***************************************************************************)

\* Longest trace file of the single file runs.
MaxLines == 3
\* Most runs of the program in a row.
MaxRuns == 2
\* Number of trace files of the runs on one thread.
MaxPaths == 9

Join3(a, b, c) == a \o << " " >> \o b \o << " " >> \o c

\* The bytes of a file of the given lines, each ended by a line feed.
RECURSIVE FileOf(_)
FileOf(ls) == IF ls = << >> THEN << >> ELSE Head(ls) \o << NL >> \o FileOf(Tail(ls))

\* File names and paths used by the inputs.
NameV == << "v" >>
NameAT == << "a", ".", "t" >>
NameAU == << "a", ".", "u" >>
NameBT == << "b", ".", "t" >>
NameD == << "d" >>
NameO == << "o" >>
PathV == << NameV >>
PathAT == << NameAT >>
PathAU == << NameAU >>
PathD == << NameD >>
PathDAT == << NameD, NameAT >>
PathDBT == << NameD, NameBT >>
PathO == << NameO >>
PathDO == << NameD, NameO >>

NoOutputPath == [some |-> FALSE, path |-> << >>]
SomeOutputPath(p) == [some |-> TRUE, path |-> p]

\* The addresses of the inputs, as written in hexadecimal: the second one
\* does not fit 16 bits.
Addr10 == << "1", "0" >>
Addr10000 == << "1", "0", "0", "0", "0" >>
Addr30 == << "3", "0" >>

\* Lines of the valid basic block file: two blocks; an unparsable line and a
\* repeated block; no block at all.
ValidBBFiles ==
    { << Addr10, Addr10000 >>,
      << << "z", "z" >>, Addr10, Addr10 >>,
      << >> }

\* The id the traced program gives its k-th line (from 0), as it prints it.
SourceId(k) == Concat(Padding(LowerHex(Usize(k)), 4)) \o LowerHex(Usize(k))

\* Well-formed lines with the id of their position.
GoodKinds == {"b10", "b10000", "b30"}
GoodLine(k, g) ==
    CASE g = "b10" -> Join3(SourceId(k), Addr10, << "5" >>)
      [] g = "b10000" -> Join3(SourceId(k), Addr10000, << "1", "2" >>)
      [] g = "b30" -> Join3(SourceId(k), Addr30, << "2" >>)

\* Lines that do not parse (an invalid digit in the id, a program counter of
\* 2^64, a sign the hit counter cannot have, a missing field, a byte that is
\* not UTF-8), or whose id is out of sequence (0 again, 2^32).
BadKinds == {"id", "pc", "hit", "short", "utf8", "restart", "jump"}
BadLine(k, b) ==
    CASE b = "id" -> Join3(<< "z", "z" >>, Addr10, << "5" >>)
      [] b = "pc" -> Join3(SourceId(k), << "1" >> \o [n \in 1..16 |-> "0"], << "5" >>)
      [] b = "hit" -> Join3(SourceId(k), Addr10, << "-", "1" >>)
      [] b = "short" -> SourceId(k) \o << " " >> \o Addr10
      [] b = "utf8" -> Join3(SourceId(k), Addr10, << InvalidByte >>)
      [] b = "restart" -> Join3(SourceId(0), Addr10, << "5" >>)
      [] b = "jump" -> Join3(<< "1" >> \o [n \in 1..8 |-> "0"], Addr10000, << "7" >>)

\* Trace files of n lines: well-formed lines, at most one line replaced.
TraceFilesOfLen(n) ==
    { [k \in 1..n |-> GoodLine(k - 1, f[k])] : f \in [1..n -> GoodKinds] }
    \cup
    { [k \in 1..n |-> IF k = p[1] THEN BadLine(k - 1, p[2]) ELSE GoodLine(k - 1, f[k])] :
        f \in [1..n -> GoodKinds], p \in (1..n) \X BadKinds }

TraceFiles == UNION { TraceFilesOfLen(n) : n \in 0..MaxLines }

\* One trace file in the working directory, of any content, no -o, on one
\* thread.
InitUnify ==
    /\ overflow_checks \in BOOLEAN
    /\ num_threads = 1
    /\ \E strip \in BOOLEAN :
         args = [valid_bb_file |-> PathV, trace_files |-> << PathAT >>,
                 output_path |-> NoOutputPath, strip |-> strip]
    /\ \E vb \in ValidBBFiles, content \in TraceFiles :
         fs = (PathV :> FileOf(vb)) @@ (PathAT :> FileOf(content))
    /\ dirs = { << >> }

\* Two trace files that unify, of different lengths, and one with a line that
\* does not parse.
FileOk == FileOf(<< GoodLine(0, "b10") >>)
FileOther == FileOf(<< GoodLine(0, "b10000") >>)
FileBad == FileOf(<< BadLine(0, "hit") >>)

\* The trace files of the batch runs: a.t and a.u in the working directory,
\* a.t and b.t in the directory d, the files of one stem differing; at most
\* one of them bad, or a.u missing.
BatchFiles ==
    LET AllOk == (PathAT :> FileOk) @@ (PathAU :> FileOther)
                 @@ (PathDAT :> FileOther) @@ (PathDBT :> FileOk)
    IN  { AllOk } \cup { [AllOk EXCEPT ![p] = FileBad] : p \in DOMAIN AllOk }
        \cup { (PathAT :> FileOk) @@ (PathDAT :> FileOther) @@ (PathDBT :> FileOk) }

\* The trace file arguments and -o of the batch runs: two files of one stem,
\* a directory, a file and a directory; -o absent, a new directory, an
\* existing file, a new directory inside the directory of the trace files.
BatchRuns ==
    { [trace_files |-> << PathAT, PathAU >>, output_path |-> op] :
        op \in { NoOutputPath, SomeOutputPath(PathO), SomeOutputPath(PathV) } }
    \cup { [trace_files |-> << PathD >>, output_path |-> op] :
        op \in { NoOutputPath, SomeOutputPath(PathO), SomeOutputPath(PathDO) } }
    \cup { [trace_files |-> tf, output_path |-> NoOutputPath] :
        tf \in { << PathAT, PathD >>, << PathD, PathAT >> } }

\* The files the trace file arguments name, directly or through a directory.
Named(tf) ==
    { tf[k] : k \in DOMAIN tf }
    \cup (IF \E k \in DOMAIN tf : tf[k] = PathD THEN { PathDAT, PathDBT } ELSE {})

\* Valid basic block files of the batch runs: two blocks; a byte that is not
\* UTF-8 on the second line.
BatchValidBB ==
    { FileOf(<< Addr10, Addr10000 >>), FileOf(<< Addr10, << InvalidByte >> >>) }

\* Several trace files and directories, with and without -o; the valid basic
\* block file is a file, missing, or a directory.  The files the arguments do
\* not name are the same in every run.  There is a thread for every path.
InitBatch ==
    /\ overflow_checks = TRUE
    /\ num_threads = 3
    /\ \E vf \in { PathV, PathO, PathD }, r \in BatchRuns, strip \in BOOLEAN :
         /\ args = [valid_bb_file |-> vf, trace_files |-> r.trace_files,
                    output_path |-> r.output_path, strip |-> strip]
         /\ \E files \in BatchFiles, vb \in BatchValidBB :
              /\ \A p \in { PathAT, PathAU, PathDAT, PathDBT } \ Named(r.trace_files) :
                   p \in DOMAIN files /\ files[p] # FileBad
              /\ fs = (PathV :> vb) @@ files
    /\ dirs = { << >>, PathD }

\* The trace files 1.t, 2.t, ... of the runs on one thread.
NumberedPath(k) == << Decimal(Usize(k)) \o << ".", "t" >> >>

\* RAYON_NUM_THREADS=1 and MaxPaths trace files in the working directory, all
\* of them unifying or one of them with a line that does not parse.
InitSequential ==
    /\ overflow_checks = TRUE
    /\ num_threads = 1
    /\ \E strip \in BOOLEAN :
         args = [valid_bb_file |-> PathV,
                 trace_files |-> [k \in 1..MaxPaths |-> NumberedPath(k)],
                 output_path |-> NoOutputPath, strip |-> strip]
    /\ \E bad \in 0..MaxPaths :
         fs = (PathV :> FileOf(<< Addr10, Addr10000 >>))
              @@ [p \in { NumberedPath(k) : k \in 1..MaxPaths } |->
                    IF bad # 0 /\ p = NumberedPath(bad) THEN FileBad ELSE FileOk]
    /\ dirs = { << >> }

Init ==
    /\ InitUnify \/ InitBatch \/ InitSequential
    /\ phase = "start"
    /\ exit_code = -1
    /\ valid_bb = << >>
    /\ output_path = << >>
    /\ trace_file_paths = << >>
    /\ stage = << >>
    /\ reader = << >>
    /\ loop = << >>
    /\ traces = << >>
    /\ failure = << >>
    /\ written = << >>
    /\ unified_trace_file = << >>
    /\ run = 1
    /\ previous = << >>

(***************************************************************************)
(* main before the parallel loop                                           *)
(***************************************************************************)

\* Lines 131-137: File::open (`?` on failure), then the lines are read:
\* l.unwrap() panics on a read error, which is what reading a directory gives,
\* and on a line that is not UTF-8.
LoadValidBB ==
    /\ phase = "start"
    /\ IF args.valid_bb_file \in DOMAIN fs
          /\ \A k \in DOMAIN lines(fs[args.valid_bb_file]) :
               is_utf8(lines(fs[args.valid_bb_file])[k])
       THEN /\ valid_bb' = load_valid_bb(lines(fs[args.valid_bb_file]))
            /\ phase' = "loaded"
            /\ UNCHANGED exit_code
       ELSE /\ phase' = "exit"
            /\ exit_code' = IF args.valid_bb_file \in DOMAIN fs \cup dirs THEN 101 ELSE 1
            /\ UNCHANGED valid_bb
    /\ UNCHANGED << args, overflow_checks, num_threads, fs, dirs, output_path, trace_file_paths,
                    stage, reader, loop, traces, failure, written,
                    unified_trace_file, run, previous >>

\* The path and every ancestor of it.
Prefixes(path) == { SubSeq(path, 1, n) : n \in 0..Len(path) }

\* Lines 140-145: create_dir_all fails when a file is in the way.
CreateOutputDir ==
    /\ phase = "loaded"
    /\ IF ~args.output_path.some
       THEN /\ output_path' = << >>
            /\ phase' = "outdir"
            /\ UNCHANGED << dirs, exit_code >>
       ELSE IF Prefixes(args.output_path.path) \cap DOMAIN fs # {}
       THEN /\ phase' = "exit"
            /\ exit_code' = 1
            /\ UNCHANGED << dirs, output_path >>
       ELSE /\ dirs' = dirs \cup Prefixes(args.output_path.path)
            /\ output_path' = args.output_path.path
            /\ phase' = "outdir"
            /\ UNCHANGED exit_code
    /\ UNCHANGED << args, overflow_checks, num_threads, fs, valid_bb, trace_file_paths,
                    stage, reader, loop, traces, failure, written,
                    unified_trace_file, run, previous >>

\* The entries fs::read_dir yields for a directory.
DirEntries(d) == { p \in DOMAIN fs \cup dirs : Len(p) = Len(d) + 1 /\ parent(p) = d }

\* The orders in which read_dir may yield them.
Listings(S) ==
    { s \in [1..Cardinality(S) -> S] : \A a, b \in DOMAIN s : a # b => s[a] # s[b] }

\* Lines 148-164: a directory is replaced by its entries, anything else is kept.
RECURSIVE Expansions(_)
Expansions(paths) ==
    IF paths = << >> THEN { << >> }
    ELSE { h \o t : h \in (IF Head(paths) \in dirs THEN Listings(DirEntries(Head(paths)))
                           ELSE { << Head(paths) >> }),
                    t \in Expansions(Tail(paths)) }

\* The output file of write_trace_file before File::create.
NotOpen == [pos |-> 0, todo |-> << >>]

CollectTraceFilePaths ==
    /\ phase = "outdir"
    /\ trace_file_paths' \in Expansions(args.trace_files)
    /\ stage' = [i \in DOMAIN trace_file_paths' |-> "pending"]
    /\ reader' = [i \in DOMAIN trace_file_paths' |-> NewReader]
    /\ loop' = [i \in DOMAIN trace_file_paths' |-> LoopStart]
    /\ traces' = [i \in DOMAIN trace_file_paths' |-> << >>]
    /\ failure' = [i \in DOMAIN trace_file_paths' |-> "none"]
    /\ written' = [i \in DOMAIN trace_file_paths' |-> << >>]
    /\ unified_trace_file' = [i \in DOMAIN trace_file_paths' |-> NotOpen]
    /\ phase' = "parallel"
    /\ UNCHANGED << args, overflow_checks, num_threads, fs, dirs, exit_code, valid_bb, output_path,
                    run, previous >>

(***************************************************************************)
(* The closure of par_iter().for_each, once per trace file                 *)
(***************************************************************************)

Units == DOMAIN trace_file_paths

Max(a, b) == IF a > b THEN a ELSE b

\* par_iter().for_each: the piece of trace_file_paths, as its first index and
\* its length, that holds path i and is folded by one worker, one path after
\* the other.  A piece of two paths or more is split in the middle while the
\* splitter has splits left, or when it is migrated: join_context hands
\* migrated to both halves when it is called from main, outside the pool, and
\* to the second half when the first one panicked (the second half then runs
\* from wait_until).  With more than one thread the second half may also be
\* stolen, which makes it migrated too; the runs on several threads have at
\* most three paths, where every path is a piece of its own either way.
RECURSIVE Leaf(_, _, _, _, _, _)
Leaf(i, lo, len, splits, migrated, from_main) ==
    IF len \div 2 >= 1 /\ (migrated \/ splits > 0)
    THEN LET left == IF migrated THEN Max(num_threads, splits \div 2)
                     ELSE splits \div 2
             mid == len \div 2
         IN  IF i < lo + mid
             THEN Leaf(i, lo, mid, left, from_main, FALSE)
             ELSE Leaf(i, lo + mid, len - mid, left,
                       from_main \/ \E j \in lo..(lo + mid - 1) : stage[j] = "panicked",
                       FALSE)
    ELSE [lo |-> lo, len |-> len]

\* Paths j and i are folded by the same worker in the same piece.
SamePart(j, i) ==
    Leaf(j, 1, Len(trace_file_paths), num_threads, FALSE, TRUE)
      = Leaf(i, 1, Len(trace_file_paths), num_threads, FALSE, TRUE)

\* The closure can start on path i: the paths before it in its piece are done,
\* and on one thread every path before it has ended.
Ready(i) ==
    /\ \A j \in 1..(i - 1) : SamePart(j, i) => stage[j] = "done"
    /\ num_threads = 1 => \A j \in 1..(i - 1) : stage[j] \in { "done", "panicked", "skipped" }

\* Line 58: File::open, which a directory passes too.  An Err becomes a panic
\* at the unwrap of line 172.  The BufReader of line 62 is the one made by
\* CollectTraceFilePaths: nothing is read before the loop.
OpenTrace(i) ==
    /\ phase = "parallel"
    /\ stage[i] = "pending"
    /\ Ready(i)
    /\ IF trace_file_paths[i] \in DOMAIN fs \cup dirs
       THEN /\ stage' = [stage EXCEPT ![i] = "reading"]
            /\ UNCHANGED failure
       ELSE /\ stage' = [stage EXCEPT ![i] = "panicked"]
            /\ failure' = [failure EXCEPT ![i] = "io"]
    /\ UNCHANGED << args, overflow_checks, num_threads, fs, dirs, phase, exit_code, valid_bb,
                    output_path, trace_file_paths, reader, loop, traces, written,
                    unified_trace_file, run, previous >>

\* What ends the closure for each way the loop body can stop.
FailureOf(status) ==
    CASE status = "Err" -> "parse"
      [] status = "PanicIndex" -> "index"
      [] status = "PanicOverflow" -> "overflow"
      [] status = "PanicRead" -> "read"

\* Lines 69-82: the loop body on the next line of the file, as far as the
\* locals of parse_bb_trace_file and the closure go.  Reading a directory is
\* a read error: l.unwrap() panics.
ReadLineLocals(i) ==
    /\ phase = "parallel"
    /\ stage[i] = "reading"
    /\ \/ /\ trace_file_paths[i] \in dirs
          /\ loop' = [loop EXCEPT ![i].status = "PanicRead"]
          /\ stage' = [stage EXCEPT ![i] = "panicked"]
          /\ failure' = [failure EXCEPT ![i] = "read"]
          /\ UNCHANGED reader
       \/ /\ trace_file_paths[i] \in DOMAIN fs
          /\ ~next_line(reader[i], fs[trace_file_paths[i]]).eof
          /\ LET next == next_line(reader[i], fs[trace_file_paths[i]])
                 st == loop_body(loop[i], next.line, valid_bb, overflow_checks)
             IN  /\ reader' = [reader EXCEPT ![i] = next.reader]
                 /\ loop' = [loop EXCEPT ![i] = st]
                 /\ IF st.status = "Run"
                    THEN UNCHANGED << stage, failure >>
                    ELSE /\ stage' = [stage EXCEPT ![i] = "panicked"]
                         /\ failure' = [failure EXCEPT ![i] = FailureOf(st.status)]

\* ReadLine that adds the address of a line it drops to valid_bb.
ReadLineLearning(i) ==
    /\ ReadLineLocals(i)
    /\ LET next == next_line(reader[i], fs[trace_file_paths[i]])
           p == parse_line(next.line)
       IN  valid_bb' = IF trace_file_paths[i] \in DOMAIN fs /\ is_utf8(next.line)
                          /\ p.status = "Ok" /\ ~contains(valid_bb, p.pc)
                       THEN Append(valid_bb, p.pc) ELSE valid_bb
    /\ UNCHANGED << args, overflow_checks, num_threads, fs, dirs, phase, exit_code,
                    output_path, trace_file_paths, traces, written,
                    unified_trace_file, run, previous >>

\* Lines 69-82 within the run: valid_bb is borrowed as &[usize], nothing but
\* the locals changes.
ReadLine(i) ==
    /\ ReadLineLocals(i)
    /\ UNCHANGED << args, overflow_checks, num_threads, fs, dirs, phase, exit_code, valid_bb,
                    output_path, trace_file_paths, traces, written,
                    unified_trace_file, run, previous >>

\* Lines 84-107: the reader is exhausted; Ok(entries) comes back to main.
ReturnEntries(i) ==
    /\ phase = "parallel"
    /\ stage[i] = "reading"
    /\ trace_file_paths[i] \in DOMAIN fs
    /\ next_line(reader[i], fs[trace_file_paths[i]]).eof
    /\ IF build_entries(loop[i]).asserted
       THEN /\ traces' = [traces EXCEPT ![i] = build_entries(loop[i]).entries]
            /\ stage' = [stage EXCEPT ![i] = "parsed"]
            /\ UNCHANGED failure
       ELSE /\ stage' = [stage EXCEPT ![i] = "panicked"]
            /\ failure' = [failure EXCEPT ![i] = "assert"]
            /\ UNCHANGED traces
    /\ UNCHANGED << args, overflow_checks, num_threads, fs, dirs, phase, exit_code, valid_bb,
                    output_path, trace_file_paths, reader, loop, written,
                    unified_trace_file, run, previous >>

\* Lines 175-185 and 111-112: File::create at the output path makes the file
\* or empties it; the handle starts at position 0.  An Err of File::create
\* panics at the unwrap.  Without traces write_trace_file returns at once.
CreateTraceFile(i) ==
    /\ phase = "parallel"
    /\ stage[i] = "parsed"
    /\ LET path == unified_trace_file_path(output_path, trace_file_paths[i], args.strip)
           todo == write_calls(traces[i], args.strip)
       IN  IF parent(path) \in dirs /\ path \notin dirs
           THEN /\ fs' = [q \in DOMAIN fs \cup { path } |->
                            IF q = path THEN << >> ELSE fs[q]]
                /\ written' = [written EXCEPT ![i] = path]
                /\ unified_trace_file' =
                     [unified_trace_file EXCEPT ![i] = [pos |-> 0, todo |-> todo]]
                /\ stage' = [stage EXCEPT ![i] = IF todo = << >> THEN "done"
                                                 ELSE "writing"]
                /\ UNCHANGED failure
           ELSE /\ stage' = [stage EXCEPT ![i] = "panicked"]
                /\ failure' = [failure EXCEPT ![i] = "create"]
                /\ UNCHANGED << fs, written, unified_trace_file >>
    /\ UNCHANGED << args, overflow_checks, num_threads, dirs, phase, exit_code, valid_bb,
                    output_path, trace_file_paths, reader, loop, traces, run, previous >>

\* Lines 114-122: the next write of the writeln! loop, at the position of this
\* handle, whatever another handle did to the file in between.  After the
\* last one write_trace_file returns Ok and the closure ends.
WriteCall(i) ==
    /\ phase = "parallel"
    /\ stage[i] = "writing"
    /\ LET f == unified_trace_file[i]
       IN  /\ fs' = [fs EXCEPT ![written[i]] = write_at(@, f.pos, Head(f.todo))]
           /\ unified_trace_file' =
                [unified_trace_file EXCEPT ![i] = [pos |-> f.pos + Len(Head(f.todo)),
                                                   todo |-> Tail(f.todo)]]
           /\ stage' = [stage EXCEPT ![i] = IF Tail(f.todo) = << >> THEN "done"
                                            ELSE "writing"]
    /\ UNCHANGED << args, overflow_checks, num_threads, dirs, phase, exit_code, valid_bb,
                    output_path, trace_file_paths, reader, loop, traces, failure,
                    written, run, previous >>

\* A panic unwinds out of the fold of the worker's piece: the paths after it
\* in that piece are never handed to the closure.  The other pieces still
\* run: join_context runs its second closure after a panic of the first.
Skip(i) ==
    /\ phase = "parallel"
    /\ stage[i] = "pending"
    /\ \E j \in Units : j < i /\ SamePart(j, i) /\ stage[j] = "panicked"
    /\ stage' = [stage EXCEPT ![i] = "skipped"]
    /\ UNCHANGED << args, overflow_checks, num_threads, fs, dirs, phase, exit_code, valid_bb,
                    output_path, trace_file_paths, reader, loop, traces, failure,
                    written, unified_trace_file, run, previous >>

\* Lines 186-188: for_each returns once every part has ended; a panic of a
\* closure is resumed in main, otherwise main returns Ok(()).
Exit ==
    /\ phase = "parallel"
    /\ \A i \in Units : stage[i] \in { "done", "panicked", "skipped" }
    /\ phase' = "exit"
    /\ exit_code' = IF \E i \in Units : stage[i] = "panicked" THEN 101 ELSE 0
    /\ UNCHANGED << args, overflow_checks, num_threads, fs, dirs, valid_bb, output_path,
                    trace_file_paths, stage, reader, loop, traces, failure, written,
                    unified_trace_file, run, previous >>

\* The program is run again on the unified file it wrote, with a valid basic
\* block file that lists every block of that file.
Rerun ==
    /\ phase = "exit"
    /\ exit_code = 0
    /\ run < MaxRuns
    /\ Len(trace_file_paths) = 1
    /\ ~args.strip
    /\ \E vb \in ValidBBFiles :
         /\ \A j \in DOMAIN traces[1] :
              contains(load_valid_bb(vb), traces[1][j].program_counter)
         /\ fs' = [fs EXCEPT ![args.valid_bb_file] = FileOf(vb)]
    /\ args' = [args EXCEPT !.trace_files = << written[1] >>]
    /\ previous' = traces[1]
    /\ run' = run + 1
    /\ phase' = "start"
    /\ exit_code' = -1
    /\ valid_bb' = << >>
    /\ output_path' = << >>
    /\ trace_file_paths' = << >>
    /\ stage' = << >>
    /\ reader' = << >>
    /\ loop' = << >>
    /\ traces' = << >>
    /\ failure' = << >>
    /\ written' = << >>
    /\ unified_trace_file' = << >>
    /\ UNCHANGED << overflow_checks, num_threads, dirs >>

Next ==
    \/ LoadValidBB
    \/ CreateOutputDir
    \/ CollectTraceFilePaths
    \/ \E i \in Units : OpenTrace(i)
    \/ \E i \in Units : ReadLine(i)
    \/ \E i \in Units : ReturnEntries(i)
    \/ \E i \in Units : CreateTraceFile(i)
    \/ \E i \in Units : WriteCall(i)
    \/ \E i \in Units : Skip(i)
    \/ Exit
    \/ Rerun

Spec == Init /\ [][Next]_vars

(***************************************************************************)
(* Vocabulary of the properties                                            *)
(***************************************************************************)

\* The lines of the trace file of unit i (<< >> when it cannot be opened).
InputLines(i) ==
    IF trace_file_paths[i] \in DOMAIN fs THEN lines(fs[trace_file_paths[i]]) ELSE << >>

\* The fields of a trace line, read in their bases.
FieldId(line) == from_str_radix(splitn(3, line, " ")[1], 16)
FieldPc(line) == from_str_radix(splitn(3, line, " ")[2], 16)
FieldHit(line) == from_str_radix(splitn(3, line, " ")[3], 10)

\* The line has three fields and each of them parses.
WellFormed(line) ==
    LET parts == splitn(3, line, " ")
    IN  /\ Len(parts) = 3
        /\ from_str_radix(parts[1], 16).ok
        /\ from_str_radix(parts[2], 16).ok
        /\ from_str_radix(parts[3], 10).ok

\* The line is text and one of the fields it has fails to parse in its base.
Unparsable(line) ==
    LET parts == splitn(3, line, " ")
    IN  /\ is_utf8(line)
        /\ \/ ~from_str_radix(parts[1], 16).ok
           \/ Len(parts) >= 2 /\ ~from_str_radix(parts[2], 16).ok
           \/ Len(parts) >= 3 /\ ~from_str_radix(parts[3], 10).ok

\* The addresses of the reference list, as a set.
ReferenceSet == { valid_bb[j] : j \in DOMAIN valid_bb }

\* The line is well formed and its address is in the reference set.
Member(line) == WellFormed(line) /\ FieldPc(line).val \in ReferenceSet

\* The ids of the lines are 0, 1, 2, ... in line order.
ContiguousFromZero(ls) ==
    \A k \in DOMAIN ls : FieldId(ls[k]) = [ok |-> TRUE, val |-> Usize(k - 1)]

\* The line is well formed and its address is not in the reference set.
NonMember(line) ==
    LET parts == splitn(3, line, " ")
    IN  /\ Len(parts) = 3
        /\ from_str_radix(parts[1], 16).ok
        /\ from_str_radix(parts[3], 10).ok
        /\ LET pc == from_str_radix(parts[2], 16)
           IN  pc.ok /\ pc.val \notin ReferenceSet

\* Number of lines among the first k that are well formed and not members.
DroppedAmong(ls, k) == Cardinality({ m \in 1..k : NonMember(ls[m]) })

\* The whole loop of parse_bb_trace_file over the lines left.
RECURSIVE run_loop(_, _, _, _)
run_loop(st, ls, vb, checks) ==
    IF ls = << >> \/ st.status # "Run" THEN st
    ELSE run_loop(loop_body(st, Head(ls), vb, checks), Tail(ls), vb, checks)

\* Unit i has a trace file that parse_bb_trace_file returns Ok for.
Processable(i) ==
    /\ trace_file_paths[i] \in DOMAIN fs
    /\ run_loop(LoopStart, InputLines(i), valid_bb, overflow_checks).status = "Run"

\* The text after the first space of a line.
AfterFirstSpace(line) == SubSeq(line, FindFrom(line, " ", 1) + 1, Len(line))

\* The bytes write_trace_file writes for the traces when nothing else writes
\* to the file.
trace_bytes(ts, strip) == Concat(write_calls(ts, strip))

(***************************************************************************)
(* C1  Filtering                                                           *)
(***************************************************************************)

\* C1: when every line of a trace file parses, the Trace parse_bb_trace_file
\* returns holds, in line order and with program_counter and hit_counter as
\* read, exactly the lines whose program_counter is in the reference set; its
\* length is the number of such lines.
C1_Filtering ==
    \A i \in Units :
        (stage[i] = "parsed" /\ \A k \in DOMAIN InputLines(i) : WellFormed(InputLines(i)[k]))
        => LET kept == SelectSeq(InputLines(i), Member)
           IN  /\ Len(traces[i]) = Cardinality({ k \in DOMAIN InputLines(i) :
                                                   Member(InputLines(i)[k]) })
               /\ Len(traces[i]) = Len(kept)
               /\ \A j \in DOMAIN kept :
                    /\ traces[i][j].program_counter = FieldPc(kept[j]).val
                    /\ traces[i][j].hit_counter = FieldHit(kept[j]).val

\* A file of three lines of which one is dropped between two that are kept.
C1_Witness ==
    \E i \in Units :
        /\ stage[i] = "parsed"
        /\ Len(InputLines(i)) >= 3
        /\ \A k \in DOMAIN InputLines(i) : WellFormed(InputLines(i)[k])
        /\ Member(InputLines(i)[1]) /\ ~Member(InputLines(i)[2]) /\ Member(InputLines(i)[3])
        /\ Len(traces[i]) = 2

(***************************************************************************)
(* C2  Compaction                                                          *)
(***************************************************************************)

\* C2: when the ids of a trace file are 0, 1, 2, ... in line order, the ids of
\* the Trace are 0, 1, ..., N-1, and the first of them is the id of the first
\* retained line minus the number of lines dropped before it.
C2_Compaction ==
    \A i \in Units :
        (stage[i] = "parsed" /\ ContiguousFromZero(InputLines(i)))
        => /\ \A j \in DOMAIN traces[i] : traces[i][j].id = Usize(j - 1)
           /\ \A k \in DOMAIN InputLines(i) :
                (Member(InputLines(i)[k]) /\ \A m \in 1..(k - 1) : ~Member(InputLines(i)[m]))
                => traces[i][1].id
                     = Minus(FieldId(InputLines(i)[k]).val,
                             Usize(DroppedAmong(InputLines(i), k - 1)))

\* A contiguous file whose first line is dropped and whose next two are kept.
C2_Witness ==
    \E i \in Units :
        /\ stage[i] = "parsed"
        /\ ContiguousFromZero(InputLines(i))
        /\ Len(InputLines(i)) >= 3
        /\ ~Member(InputLines(i)[1]) /\ Member(InputLines(i)[2]) /\ Member(InputLines(i)[3])
        /\ Len(traces[i]) >= 2

(***************************************************************************)
(* C3  Isolation of a failing file                                         *)
(***************************************************************************)

\* C3: a failure in one trace file is isolated to that file: when the run has
\* ended, every trace file that can be processed has its output file written.
C3_FailureIsolated ==
    phase = "exit"
    => \A i \in Units : Processable(i) => stage[i] = "done" /\ written[i] \in DOMAIN fs

(***************************************************************************)
(* C4  A line that does not parse                                          *)
(***************************************************************************)

\* C4: when a field of some line of a trace file fails to parse in its base,
\* parse_bb_trace_file ends with an error at that line: it returns no Trace,
\* and no output file is created or written for that file, however many
\* earlier lines were retained.
C4_ParseErrorAborts ==
    \A i \in Units :
        LET ls == InputLines(i)
            nothing == /\ stage[i] \notin { "parsed", "writing", "done" }
                       /\ traces[i] = << >>
                       /\ written[i] = << >>
            stopped == /\ stage[i] = "panicked"
                       /\ failure[i] = "parse"
                       /\ loop[i].status = "Err"
        IN  /\ nothing \/ ~(/\ written[i] # trace_file_paths[i]
                             /\ \E k \in DOMAIN ls : Unparsable(ls[k]))
            /\ stopped \/ ~(/\ stage[i] \in { "reading", "panicked" }
                             /\ loop[i].k >= 1
                             /\ Unparsable(ls[loop[i].k]))

\* The loop has retained two lines and stopped at the third, which does not
\* parse; the run has ended.
C4_Witness ==
    \E i \in Units :
        /\ phase = "exit"
        /\ stage[i] = "panicked" /\ failure[i] = "parse"
        /\ loop[i].k = 3 /\ Unparsable(InputLines(i)[3])
        /\ Len(loop[i].ids) = 2
        /\ unified_trace_file_path(output_path, trace_file_paths[i], args.strip)
             \notin DOMAIN fs

(***************************************************************************)
(* C5  Idempotence                                                         *)
(***************************************************************************)

\* C5: unifying the unified, non-stripped output of a trace again, against a
\* reference list that holds every address of that output, drops nothing and
\* returns the same Trace: same ids, program counters, hit counters and order;
\* the file written is the same too.
C5_Idempotent ==
    (run > 1 /\ Units # {})
    => /\ stage[1] # "panicked"
       /\ stage[1] \in { "parsed", "writing", "done" }
          => traces[1] = previous /\ loop[1].id_offset = Zero
       /\ stage[1] = "done" => fs[written[1]] = trace_bytes(previous, FALSE)

\* The second run has written its output for a trace of two entries or more
\* one of which has an id above 9.
C5_Witness ==
    /\ run > 1 /\ Units # {}
    /\ stage[1] = "done"
    /\ Len(previous) >= 2
    /\ \E j \in DOMAIN previous : Less(Usize(9), previous[j].id)

(***************************************************************************)
(* C6  Output paths of distinct trace files                                *)
(***************************************************************************)

\* C6 as claimed: two distinct trace file paths never have the same output
\* path, so no two units write the same output file.
C6_DistinctPathsDistinctOutputs ==
    \A i, j \in Units :
        (i # j /\ trace_file_paths[i] # trace_file_paths[j]
         /\ written[i] # << >> /\ written[j] # << >>)
        => written[i] # written[j]

\* C6 as amended: two trace file paths whose file stems differ never have the
\* same output path, so no two units of distinct stems write the same file.
C6_DistinctStemsDistinctOutputs ==
    \A i, j \in Units :
        (i # j /\ file_stem(file_name(trace_file_paths[i]))
                    # file_stem(file_name(trace_file_paths[j])))
        => /\ unified_trace_file_path(output_path, trace_file_paths[i], args.strip)
                # unified_trace_file_path(output_path, trace_file_paths[j], args.strip)
           /\ (written[i] # << >> /\ written[j] # << >>) => written[i] # written[j]

\* Two units of distinct stems have both written their output.
C6_Witness ==
    \E i, j \in Units :
        /\ file_stem(file_name(trace_file_paths[i]))
             # file_stem(file_name(trace_file_paths[j]))
        /\ stage[i] = "done" /\ stage[j] = "done"
        /\ written[i] \in DOMAIN fs /\ written[j] \in DOMAIN fs

(***************************************************************************)
(* C7  Where the output file goes                                          *)
(***************************************************************************)

\* C7: without -o the output file of a trace file is written into the directory
\* that holds the trace file, with -o into that directory; in both cases under
\* the name <stem>.unified, or <stem>.stripped when strip is set.
C7_OutputAlongsideInput ==
    \A i \in Units :
        written[i] # << >>
        => written[i]
             = Append(IF args.output_path.some THEN args.output_path.path
                      ELSE parent(trace_file_paths[i]),
                      file_stem(file_name(trace_file_paths[i])) \o << "." >>
                        \o (IF args.strip THEN Stripped ELSE Unified))

(***************************************************************************)
(* C8  Stripping                                                           *)
(***************************************************************************)

\* C8: the strip flag changes only the rendering: the stripped output has as
\* many lines as the non-stripped one, and its j-th line is the j-th
\* non-stripped line without the id: the program_counter and the hit_counter
\* of the j-th entry and nothing else.
C8_StripOnlyRendering ==
    \A i \in Units :
        (stage[i] = "done" /\ \A j \in Units : j # i => written[j] # written[i])
        => LET other == lines(trace_bytes(traces[i], ~args.strip))
               mine == lines(fs[written[i]])
               stripped == IF args.strip THEN mine ELSE other
               full == IF args.strip THEN other ELSE mine
           IN  /\ Len(stripped) = Len(full)
               /\ Len(full) = Len(traces[i])
               /\ \A j \in DOMAIN stripped :
                    /\ stripped[j] = AfterFirstSpace(full[j])
                    /\ Len(splitn(3, stripped[j], " ")) = 2
                    /\ from_str_radix(splitn(3, stripped[j], " ")[1], 16)
                         = [ok |-> TRUE, val |-> traces[i][j].program_counter]
                    /\ from_str_radix(splitn(3, stripped[j], " ")[2], 10)
                         = [ok |-> TRUE, val |-> traces[i][j].hit_counter]
                    /\ FieldPc(full[j]).val = traces[i][j].program_counter
                    /\ FieldHit(full[j]).val = traces[i][j].hit_counter

\* A stripped output file of two lines or more has been written.
C8_Witness ==
    \E i \in Units :
        /\ stage[i] = "done" /\ args.strip
        /\ Len(traces[i]) >= 2
        /\ fs[written[i]] = trace_bytes(traces[i], TRUE)

(***************************************************************************)
(* C9  The reference list is never changed                                 *)
(***************************************************************************)

\* The list read from the valid basic block file: the values of the lines that
\* parse as hexadecimal, in line order.
ReferenceOfFile ==
    LET IsHex(l) == from_str_radix(l, 16).ok
        hex == SelectSeq(lines(fs[args.valid_bb_file]), IsHex)
    IN  [j \in DOMAIN hex |-> from_str_radix(hex[j], 16).val]

\* C9: once built, the reference list stays what was read from the valid
\* basic block file, whatever the units have parsed, filtered and written and
\* whether they failed.
C9_ReferenceNeverChanged ==
    (phase # "start" /\ args.valid_bb_file \in DOMAIN fs
     /\ LET ls == lines(fs[args.valid_bb_file])
        IN  \A k \in DOMAIN ls : is_utf8(ls[k]))
    => valid_bb = ReferenceOfFile

\* The run has ended after one unit wrote its output, one failed and lines
\* were dropped.
C9_Witness ==
    /\ phase = "exit"
    /\ valid_bb # << >>
    /\ \E i, j \in Units : stage[i] = "done" /\ stage[j] = "panicked"
    /\ \E i \in Units : loop[i].id_offset # Zero \/ failure[i] = "parse"

(***************************************************************************)
(* C10  id - id_offset                                                     *)
(***************************************************************************)

\* C10: at every point of the loop id_offset is the number of lines read so
\* far whose program_counter is not in the reference set; and when the ids of
\* the file are 0, 1, 2, ... in line order, id - id_offset never underflows:
\* the id of a line about to be retained is at least id_offset.
C10_NoUnderflow ==
    \A i \in Units :
        stage[i] \in { "reading", "parsed", "panicked" }
        => LET ls == InputLines(i)
           IN  /\ loop[i].id_offset = Usize(DroppedAmong(ls, loop[i].k))
               /\ ContiguousFromZero(ls)
                  => /\ failure[i] # "overflow"
                     /\ \A j \in DOMAIN loop[i].ids : loop[i].ids[j] = Usize(j - 1)
                     /\ (stage[i] = "reading" /\ loop[i].k < Len(ls)
                         /\ Member(ls[loop[i].k + 1]))
                        => ~Less(FieldId(ls[loop[i].k + 1]).val, loop[i].id_offset)

\* In a contiguous file two lines have been dropped and the next one is about
\* to be retained.
C10_Witness ==
    \E i \in Units :
        /\ stage[i] = "reading"
        /\ ContiguousFromZero(InputLines(i))
        /\ loop[i].k = 2 /\ loop[i].id_offset = Usize(2)
        /\ Len(InputLines(i)) >= 3
        /\ Member(InputLines(i)[3])

====
